---- MODULE Spec2Model ----
(***************************************************************************)
(* RegisterScreen: the initial-admin registration screen.  One component    *)
(* instance: the mount effect's status loader (loadStatus), the controlled  *)
(* form, the submit handler (onSubmit) with its registration POSTs in       *)
(* flight, the buttons that navigate, and the unmount (effect cleanup).     *)
(***************************************************************************)
EXTENDS Integers, Sequences, FiniteSets, TLC

(* ---------------------------------------------------------------- bounds *)

\* Registration POSTs issued over one run.
MaxPosts == 2

\* Navigations the user starts with the "Go to Setup" / "Back to Login" buttons.
MaxButtonNavs == 1

(* ------------------------------------------------------------- constants *)

\* formData.password.length < 8
MinPasswordLength == 8

(* ------------------------------------------------------- values and types *)

\* null (None) or a value (Some(x)): useState<SetupStatus | null>, useState<string | null>.
None == <<>>

Some(x) == <<x>>

\* An optional boolean of the status JSON: true, false, or the field left out.
OptBool == {"true", "false", "absent"}

\* The fields of SetupStatus that the component reads in its control flow.
SetupStatus == [dbConfigured : OptBool, connectionValid : OptBool,
                tablesCreated : BOOLEAN, adminExists : BOOLEAN]

\* What the status endpoint's body parses to: a SetupStatus object or JSON null.
StatusData == {Some(s) : s \in SetupStatus} \cup {None}

\* JavaScript truthiness of an optional boolean: !!x.
Truthy(b) == b = "true"

\* JavaScript truthiness of a string: the empty string is falsy.
TruthyString(s) == s # ""

\* Values a rejected promise can carry: an Error with a message (possibly the
\* empty one), or a value that is no Error.
ThrownValues == {[isError |-> TRUE, message |-> "Failed to fetch"],
                 [isError |-> TRUE, message |-> ""],
                 [isError |-> FALSE, message |-> "not an Error"]}

\* Reading a property of null throws a TypeError.
NullPropertyError == [isError |-> TRUE,
                      message |-> "Cannot read properties of null"]

\* Bodies of a non-2xx registration response: not JSON, JSON without an error
\* field, or JSON with one.
ResponseBodies == {[parses |-> FALSE, error |-> None],
                   [parses |-> TRUE, error |-> None],
                   [parses |-> TRUE, error |-> Some("")],
                   [parses |-> TRUE, error |-> Some("Email taken")]}

FullNames == {"", "Ada"}

Emails == {"", "ada@example.com"}

Passwords == {"", "1234567", "12345678"}

FieldValues(f) == CASE f = "fullName" -> FullNames
                    [] f = "email" -> Emails
                    [] f = "password" -> Passwords

FieldNames == {"fullName", "email", "password"}

NoToast == [kind |-> "none", message |-> ""]

Toast(k, m) == [kind |-> k, message |-> m]

Nav(by, method, to) == [by |-> by, method |-> method, to |-> to]

(* ------------------------------------------------------------------ state *)

VARIABLES
    mounted,        \* the component is in the tree
    cancelled,      \* the effect's closure flag
    loaderPc,       \* loadStatus: "start", "awaitFetch", "awaitJson", "done"
    status,         \* useState<SetupStatus | null>
    loadingStatus,  \* useState(true)
    submitting,     \* useState(false)
    error,          \* useState<string | null>
    formData,       \* useState({fullName, email, password})
    inflight,       \* registration POSTs not yet settled, in the order issued
    postsIssued,    \* registration POSTs issued so far
    navs,           \* router.replace / router.push calls, in order
    lastToast       \* the last toast fired

vars == <<mounted, cancelled, loaderPc, status, loadingStatus, submitting,
          error, formData, inflight, postsIssued, navs, lastToast>>

(* -------------------------------------------------------- pure functions *)

\* Variant: the memo forgets the tablesCreated test.
canRegisterInitialAdmin_NoTables(s) ==
    IF s = None THEN FALSE
    ELSE /\ Truthy(s[1].dbConfigured)
         /\ Truthy(s[1].connectionValid)
         /\ ~s[1].adminExists

\* Variant: the memo forgets the adminExists test.
canRegisterInitialAdmin_NoAdminTest(s) ==
    IF s = None THEN FALSE
    ELSE /\ Truthy(s[1].dbConfigured)
         /\ Truthy(s[1].connectionValid)
         /\ s[1].tablesCreated

\* useMemo: canRegisterInitialAdmin, from the status in state.
canRegisterInitialAdmin(s) ==
    IF s = None THEN FALSE
    ELSE /\ Truthy(s[1].dbConfigured)
         /\ Truthy(s[1].connectionValid)
         /\ s[1].tablesCreated
         /\ ~s[1].adminExists

CanRegister == canRegisterInitialAdmin(status)

\* Variant: the loader tests adminExists before tablesCreated.
LoaderRedirect_AdminFirst(data) ==
    IF ~Truthy(data.dbConfigured) \/ ~Truthy(data.connectionValid) THEN <<>>
    ELSE IF data.adminExists THEN <<Nav("loadStatus", "replace", "/login")>>
    ELSE IF ~data.tablesCreated THEN <<Nav("loadStatus", "replace", "/setup")>>
    ELSE <<>>

\* The router.replace calls loadStatus makes for a status object, in its order of
\* tests: none when the database is not ready, /setup, /login, or none.
LoaderRedirect(data) ==
    IF ~Truthy(data.dbConfigured) \/ ~Truthy(data.connectionValid) THEN <<>>
    ELSE IF ~data.tablesCreated THEN <<Nav("loadStatus", "replace", "/setup")>>
    ELSE IF data.adminExists THEN <<Nav("loadStatus", "replace", "/login")>>
    ELSE <<>>

\* Variant: the loader never looks at the cancelled flag.
IsCancelled_Never == FALSE

\* The test "if (cancelled) return" / "if (!cancelled)" of loadStatus.
IsCancelled == cancelled

\* e instanceof Error ? e.message : fallback
CatchMessage(e, fallback) == IF e.isError THEN e.message ELSE fallback

\* Variant: data?.error ?? 'Failed to create account' (an empty error is kept).
FailureMessage_Nullish(body) ==
    IF body.parses /\ body.error # None
    THEN body.error[1]
    ELSE "Failed to create account"

\* response.json().catch(() => ({})), then data?.error || 'Failed to create account'
FailureMessage(body) ==
    IF body.parses /\ body.error # None /\ TruthyString(body.error[1])
    THEN body.error[1]
    ELSE "Failed to create account"

\* Variant: the length test is off by one (a 7-character password passes).
PasswordTooShort_OffByOne(pw) == Len(pw) < MinPasswordLength - 1

\* formData.password.length < 8
PasswordTooShort(pw) == Len(pw) < MinPasswordLength

\* Variant: the change handler forgets the spread, so the other fields are lost.
SetField_NoSpread(form, f, v) ==
    [[fullName |-> "", email |-> "", password |-> ""] EXCEPT ![f] = v]

\* setFormData({ ...formData, [f]: v })
SetField(form, f, v) == [form EXCEPT ![f] = v]

\* Variant: no finally block, submitting keeps its value.
SubmittingAfterFinally_Missing == submitting

\* finally { setSubmitting(false) }: the value submitting has once onSubmit's
\* try statement has completed, on every path out of it.
SubmittingAfterFinally == FALSE

\* The request body of the registration POST.
RegisterBody(form) == [email |-> form.email, password |-> form.password,
                       fullName |-> form.fullName, role |-> "admin"]

\* A sequence without its i-th element: the promise of that POST has settled.
RemoveAt(s, i) == SubSeq(s, 1, i - 1) \o SubSeq(s, i + 1, Len(s))

(* -------------------------------------------------------------- rendering *)

\* The "Checking system status..." spinner.
SpinnerRendered == mounted /\ loadingStatus

\* The "Cannot Register Yet" card.
BlockedRendered ==
    /\ mounted /\ ~loadingStatus
    /\ status # None
    /\ (~Truthy(status[1].dbConfigured) \/ ~Truthy(status[1].connectionValid))

\* The registration form (its inputs and submit button may be disabled).
FormRendered == mounted /\ ~loadingStatus /\ ~BlockedRendered

\* disabled={submitting || !canRegisterInitialAdmin}
FormDisabled == submitting \/ ~CanRegister

ButtonNavs == SelectSeq(navs, LAMBDA n : n.by = "button")

(* ------------------------------------------------------------------- Init *)

Init ==
    /\ mounted = TRUE
    /\ cancelled = FALSE
    /\ loaderPc = "start"
    /\ status = None
    /\ loadingStatus = TRUE
    /\ submitting = FALSE
    /\ error = None
    /\ formData = [fullName |-> "", email |-> "", password |-> ""]
    /\ inflight = <<>>
    /\ postsIssued = 0
    /\ navs = <<>>
    /\ lastToast = NoToast

(* ------------------------------------------------------ the status loader *)

\* The effect runs: loadStatus() up to its first await (the fetch is issued).
loadStatusStart ==
    /\ loaderPc = "start"
    /\ mounted
    /\ loadingStatus' = TRUE
    /\ error' = None
    /\ loaderPc' = "awaitFetch"
    /\ UNCHANGED <<mounted, cancelled, status, submitting, formData, inflight,
                   postsIssued, navs, lastToast>>

\* fetch('/api/setup/status') resolves with a response; response.json() starts.
fetchStatusResponds ==
    /\ loaderPc = "awaitFetch"
    /\ loaderPc' = "awaitJson"
    /\ UNCHANGED <<mounted, cancelled, status, loadingStatus, submitting, error,
                   formData, inflight, postsIssued, navs, lastToast>>

\* The catch and finally blocks of loadStatus for a thrown value e.
LoadStatusCatch(e) ==
    IF IsCancelled
    THEN UNCHANGED <<error, loadingStatus>>
    ELSE /\ error' = Some(CatchMessage(e, "Failed to check setup status"))
         /\ loadingStatus' = FALSE

\* The fetch rejects, or response.json() rejects (the body is no JSON).
loadStatusThrows(e) ==
    /\ loaderPc \in {"awaitFetch", "awaitJson"}
    /\ loaderPc' = "done"
    /\ LoadStatusCatch(e)
    /\ UNCHANGED <<mounted, cancelled, status, submitting, formData, inflight,
                   postsIssued, navs, lastToast>>

\* response.json() resolves with data: the rest of the try block, then finally.
loadStatusResolves(data) ==
    /\ loaderPc = "awaitJson"
    /\ loaderPc' = "done"
    /\ IF IsCancelled
       THEN UNCHANGED <<status, error, loadingStatus, navs>>
       ELSE /\ status' = data
            /\ IF data = None
               THEN \* data.dbConfigured throws a TypeError, caught below
                    /\ LoadStatusCatch(NullPropertyError)
                    /\ UNCHANGED navs
               ELSE /\ navs' = navs \o LoaderRedirect(data[1])
                    /\ loadingStatus' = FALSE
                    /\ UNCHANGED error
    /\ UNCHANGED <<mounted, cancelled, submitting, formData, inflight,
                   postsIssued, lastToast>>

\* The effect's cleanup: the component unmounts.
unmount ==
    /\ mounted
    /\ loaderPc # "start"
    /\ mounted' = FALSE
    /\ cancelled' = TRUE
    /\ UNCHANGED <<loaderPc, status, loadingStatus, submitting, error, formData,
                   inflight, postsIssued, navs, lastToast>>

(* ---------------------------------------------------- the form controller *)

\* onChange of the input of field f with the value v.
changeField(f, v) ==
    /\ FormRendered
    /\ formData' = SetField(formData, f, v)
    /\ UNCHANGED <<mounted, cancelled, loaderPc, status, loadingStatus,
                   submitting, error, inflight, postsIssued, navs, lastToast>>

(* -------------------------------------------------- the submission handler *)

\* A submit event on the form: onSubmit up to its first await.  The handler
\* runs for every submit event the rendered form receives; the disabled
\* attribute of the button and inputs is markup, the handler's own tests are
\* canRegisterInitialAdmin and the password length.
onSubmit ==
    /\ FormRendered
    /\ IF ~CanRegister
       THEN /\ lastToast' = Toast("error", "Registration is not available right now")
            /\ UNCHANGED <<submitting, error, inflight, postsIssued>>
       ELSE IF PasswordTooShort(formData.password)
       THEN /\ lastToast' = Toast("error", "Password must be at least 8 characters")
            /\ UNCHANGED <<submitting, error, inflight, postsIssued>>
       ELSE /\ postsIssued < MaxPosts
            /\ submitting' = TRUE
            /\ error' = None
            /\ inflight' = Append(inflight, [body |-> RegisterBody(formData),
                                             phase |-> "fetch"])
            /\ postsIssued' = postsIssued + 1
            /\ UNCHANGED lastToast
    /\ UNCHANGED <<mounted, cancelled, loaderPc, status, loadingStatus, formData,
                   navs>>

\* The failure path of onSubmit with the message m, then finally.
SubmitFailed(i, m) ==
    /\ error' = Some(m)
    /\ lastToast' = Toast("error", m)
    /\ submitting' = SubmittingAfterFinally
    /\ inflight' = RemoveAt(inflight, i)
    /\ UNCHANGED navs

\* The POST i resolves with a response whose ok flag is given.
registerResponds(i, ok) ==
    /\ i \in 1..Len(inflight)
    /\ inflight[i].phase = "fetch"
    /\ IF ok
       THEN /\ lastToast' = Toast("success", "Admin account created")
            /\ navs' = Append(navs, Nav("onSubmit", "push", "/admin"))
            /\ submitting' = SubmittingAfterFinally
            /\ inflight' = RemoveAt(inflight, i)
            /\ UNCHANGED error
       ELSE /\ inflight' = [inflight EXCEPT ![i].phase = "json"]
            /\ UNCHANGED <<lastToast, navs, submitting, error>>
    /\ UNCHANGED <<mounted, cancelled, loaderPc, status, loadingStatus, formData,
                   postsIssued>>

\* The POST i rejects with e: the catch block.
registerThrows(i, e) ==
    /\ i \in 1..Len(inflight)
    /\ inflight[i].phase = "fetch"
    /\ SubmitFailed(i, CatchMessage(e, "Registration failed"))
    /\ UNCHANGED <<mounted, cancelled, loaderPc, status, loadingStatus, formData,
                   postsIssued>>

\* The body of the non-2xx response of POST i settles.
registerBodySettles(i, body) ==
    /\ i \in 1..Len(inflight)
    /\ inflight[i].phase = "json"
    /\ SubmitFailed(i, FailureMessage(body))
    /\ UNCHANGED <<mounted, cancelled, loaderPc, status, loadingStatus, formData,
                   postsIssued>>

(* ---------------------------------------------------------------- buttons *)

\* "Go to Setup" on the "Cannot Register Yet" card.
clickGoToSetup ==
    /\ BlockedRendered
    /\ Len(ButtonNavs) < MaxButtonNavs
    /\ navs' = Append(navs, Nav("button", "push", "/setup"))
    /\ UNCHANGED <<mounted, cancelled, loaderPc, status, loadingStatus,
                   submitting, error, formData, inflight, postsIssued, lastToast>>

\* "Back to Login", on the card and under the form.
clickBackToLogin ==
    /\ BlockedRendered \/ FormRendered
    /\ Len(ButtonNavs) < MaxButtonNavs
    /\ navs' = Append(navs, Nav("button", "push", "/login"))
    /\ UNCHANGED <<mounted, cancelled, loaderPc, status, loadingStatus,
                   submitting, error, formData, inflight, postsIssued, lastToast>>

(* ------------------------------------------------------------------- Next *)

Next ==
    \/ loadStatusStart
    \/ fetchStatusResponds
    \/ \E e \in ThrownValues : loadStatusThrows(e)
    \/ \E data \in StatusData : loadStatusResolves(data)
    \/ unmount
    \/ \E f \in FieldNames : \E v \in FieldValues(f) : changeField(f, v)
    \/ onSubmit
    \/ \E i \in 1..MaxPosts : \E ok \in BOOLEAN : registerResponds(i, ok)
    \/ \E i \in 1..MaxPosts : \E e \in ThrownValues : registerThrows(i, e)
    \/ \E i \in 1..MaxPosts : \E body \in ResponseBodies : registerBodySettles(i, body)
    \/ clickGoToSetup
    \/ clickBackToLogin

Spec == Init /\ [][Next]_vars

(* ------------------------------------------------------------- properties *)

\* The router.replace calls of loadStatus, in order.
LoaderNavs == SelectSeq(navs, LAMBDA n : n.by = "loadStatus")

\* The router.push('/admin') calls of onSubmit, in order.
AdminNavs == SelectSeq(navs, LAMBDA n : n.by = "onSubmit")

\* The one status with which registration is permitted.
EligibleStatus == [dbConfigured |-> "true", connectionValid |-> "true",
                   tablesCreated |-> TRUE, adminExists |-> FALSE]

\* C1: once the status fetch has resolved while mounted (a status object is
\* stored), the loader has issued at most one redirect, decided in this order:
\* none if dbConfigured or connectionValid is false or absent, else /setup if
\* tablesCreated is false, else /login if adminExists, else none and the
\* registration form is what a mounted component shows.
C1_LoaderDecidesInOrder ==
    /\ Len(LoaderNavs) <= 1
    /\ status # None =>
         LET d == status[1]
             dbReady == d.dbConfigured = "true" /\ d.connectionValid = "true"
         IN  /\ loaderPc = "done"
             /\ ~dbReady => LoaderNavs = <<>>
             /\ (dbReady /\ ~d.tablesCreated) =>
                    LoaderNavs = <<Nav("loadStatus", "replace", "/setup")>>
             /\ (dbReady /\ d.tablesCreated /\ d.adminExists) =>
                    LoaderNavs = <<Nav("loadStatus", "replace", "/login")>>
             /\ (dbReady /\ d.tablesCreated /\ ~d.adminExists) =>
                    /\ LoaderNavs = <<>>
                    /\ mounted => FormRendered

\* C1 witness: tables missing and an admin present: the loader went to /setup.
C1_Witness ==
    /\ status = Some([dbConfigured |-> "true", connectionValid |-> "true",
                      tablesCreated |-> FALSE, adminExists |-> TRUE])
    /\ LoaderNavs = <<Nav("loadStatus", "replace", "/setup")>>

\* C2: canRegister is true exactly when a status is loaded whose dbConfigured,
\* connectionValid and tablesCreated are true and whose adminExists is false;
\* an absent dbConfigured or connectionValid counts as false, and with no status
\* loaded canRegister is false.
C2_CanRegisterTruthTable ==
    CanRegister <=> (status = Some(EligibleStatus))

\* C2 witness: a loaded status that lacks dbConfigured and is otherwise eligible.
C2_Witness ==
    /\ status = Some([EligibleStatus EXCEPT !.dbConfigured = "absent"])
    /\ ~CanRegister

\* C3: a step issues a registration POST only from a state where canRegister
\* holds and the password has at least 8 characters; a submit event in a state
\* where canRegister is false or the password is shorter issues no POST and
\* leaves submitting, error and the form fields as they were.
C3_SubmitGuards ==
    [][ /\ (postsIssued' # postsIssued \/ Len(inflight') > Len(inflight)) =>
              (CanRegister /\ Len(formData.password) >= MinPasswordLength)
        /\ (onSubmit /\ (~CanRegister \/ Len(formData.password) < MinPasswordLength)) =>
              UNCHANGED <<inflight, postsIssued, submitting, error, formData>>
      ]_vars

\* C3 witness: eligible, a 7-character password, the submit was refused locally.
C3_Witness ==
    /\ CanRegister
    /\ Len(formData.password) = MinPasswordLength - 1
    /\ lastToast = Toast("error", "Password must be at least 8 characters")
    /\ postsIssued = 0
    /\ ~submitting

\* C4: at any time at most one registration POST is in flight.
C4_AtMostOnePostInFlight == Len(inflight) <= 1

\* C5: a loader that finishes (resolved or rejected) after the unmount updates
\* no state and issues no redirect.
C5_NoUpdateAfterUnmount ==
    [][ (cancelled /\ loaderPc # "done" /\ loaderPc' = "done") =>
            UNCHANGED <<status, error, loadingStatus, navs>> ]_vars

\* C5 witness: the loader has finished after the unmount; nothing was stored.
C5_Witness ==
    /\ cancelled /\ loaderPc = "done"
    /\ loadingStatus /\ status = None /\ error = None /\ navs = <<>>

\* C6: when a POST ends in a non-2xx response or a thrown error, that step
\* navigates nowhere, sets error to the body's error field if it has a
\* non-empty one and to 'Failed to create account' if not (or if the body is no
\* JSON), or on a throw to the Error's message, 'Registration failed' for a
\* value that is no Error; submitting is false afterwards, and the form of a
\* mounted component is enabled again.
C6_FailureSurfaced ==
    [][ /\ \A i \in 1..MaxPosts : \A body \in ResponseBodies :
              registerBodySettles(i, body) =>
                /\ navs' = navs
                /\ error' = Some(IF body.parses /\ body.error \notin {None, Some("")}
                                 THEN body.error[1]
                                 ELSE "Failed to create account")
                /\ lastToast' = Toast("error", error'[1])
                /\ ~submitting'
                /\ mounted' => (FormRendered' /\ ~FormDisabled')
        /\ \A i \in 1..MaxPosts : \A e \in ThrownValues :
              registerThrows(i, e) =>
                /\ navs' = navs
                /\ error' = Some(IF e.isError THEN e.message
                                 ELSE "Registration failed")
                /\ lastToast' = Toast("error", error'[1])
                /\ ~submitting'
                /\ mounted' => (FormRendered' /\ ~FormDisabled')
      ]_vars

\* C6 witness: the one POST issued was refused with {error: "Email taken"}.
C6_Witness ==
    /\ postsIssued = 1 /\ inflight = <<>>
    /\ error = Some("Email taken")
    /\ lastToast = Toast("error", "Email taken")
    /\ ~submitting
    /\ AdminNavs = <<>>

\* C7 as stated: the step that handles a 2xx response fires the success notice,
\* navigates to /admin, and leaves submitting true.
C7_SuccessKeepsSubmitting ==
    [][ \A i \in 1..MaxPosts :
          registerResponds(i, TRUE) =>
            /\ lastToast' = Toast("success", "Admin account created")
            /\ navs' = Append(navs, Nav("onSubmit", "push", "/admin"))
            /\ submitting'
      ]_vars

\* C7 amended: the step that handles a 2xx response fires the success notice
\* and navigates to /admin, and the handler's finally block then sets
\* submitting to false.
C7_SuccessThenFinally ==
    [][ \A i \in 1..MaxPosts :
          registerResponds(i, TRUE) =>
            /\ lastToast' = Toast("success", "Admin account created")
            /\ navs' = Append(navs, Nav("onSubmit", "push", "/admin"))
            /\ ~submitting'
      ]_vars

\* C7 witness: the one POST issued got a 2xx response.
C7_Witness ==
    /\ postsIssued = 1 /\ inflight = <<>>
    /\ lastToast = Toast("success", "Admin account created")
    /\ AdminNavs = <<Nav("onSubmit", "push", "/admin")>>
    /\ ~submitting

\* The loader has finished in its failure path while mounted.
LoaderFailed == loaderPc = "done" /\ status = None /\ ~loadingStatus

\* C8: after the status fetch or its parsing failed while mounted, a non-empty
\* error string is stored, loadingStatus is false, no redirect was issued,
\* canRegister is false and no registration POST is ever issued.
C8_FailureStoresMessage ==
    LoaderFailed =>
        /\ error # None /\ error[1] # ""
        /\ LoaderNavs = <<>>
        /\ ~CanRegister
        /\ postsIssued = 0 /\ inflight = <<>> /\ ~submitting

\* C9: the form record changes only in a field-change event, and such an event
\* sets the changed field to the new value and keeps the other two.
C9_FormFrame ==
    [][ /\ formData' # formData =>
              \E f \in FieldNames : \E v \in FieldValues(f) : changeField(f, v)
        /\ \A f \in FieldNames : \A v \in FieldValues(f) :
              changeField(f, v) =>
                /\ formData'[f] = v
                /\ \A g \in FieldNames \ {f} : formData'[g] = formData[g]
      ]_vars

\* C9 witness: all three fields typed, a POST issued and refused, fields kept.
C9_Witness ==
    /\ formData = [fullName |-> "Ada", email |-> "ada@example.com",
                   password |-> "12345678"]
    /\ postsIssued = MaxPosts /\ inflight = <<>>
    /\ error # None

\* C10: a POST, a true submitting flag and a navigation to /admin occur only
\* after the loader finished READY (eligible status stored, no redirect); after
\* a redirect to /setup or /login, or in the blocked outcome, submitting is
\* false, no POST was issued and /admin was never navigated to.
C10_SubmissionOnlyWhenReady ==
    /\ (postsIssued > 0 \/ inflight # <<>> \/ submitting \/ AdminNavs # <<>>) =>
          /\ loaderPc = "done"
          /\ status = Some(EligibleStatus)
          /\ LoaderNavs = <<>>
    /\ (LoaderNavs # <<>> \/ (status # None /\ status # Some(EligibleStatus))) =>
          /\ ~submitting
          /\ postsIssued = 0 /\ inflight = <<>>
          /\ AdminNavs = <<>>

\* C10 witness: the loader redirected to /login and a submit event was refused.
C10_Witness ==
    /\ LoaderNavs = <<Nav("loadStatus", "replace", "/login")>>
    /\ lastToast = Toast("error", "Registration is not available right now")
    /\ ~submitting /\ postsIssued = 0

====
